---- MODULE Spec2Model ----
(***************************************************************************)
(* Model of one server session of the matrix client/server pair:           *)
(* handle_client (the command loop of src/server.cpp), the background      *)
(* worker perform_computation it spawns, and the row tasks                 *)
(* process_matrix_rows the worker fans out.  The handler, the worker and   *)
(* every row task are separate threads; one action is one step of one      *)
(* thread containing at most one access to memory another thread may       *)
(* touch at the same time.                                                  *)
(***************************************************************************)
EXTENDS Integers, Sequences, FiniteSets

----------------------------------------------------------------------------
(* Protocol tags, src/server.cpp:17-23 *)
CMD_CONFIG_DATA == 1
CMD_START_COMP == 2
CMD_GET_STATUS == 3
RESP_ACK == 10
RESP_STATUS_PENDING == 11
RESP_RESULT == 12
RESP_ERROR == 13

(* The server's cap on the matrix side, src/server.cpp:227 *)
ServerCap == 3000

(* -infinity of process_matrix_rows: below every float the model uses *)
NegInf == -1

(* Bounds of the model *)
MaxN == 2
MaxVal == 2
MaxT == 2
MaxCmds == 6
MaxConfigs == 2
MaxRows == 6

(* What a client can put on the wire *)
Commands == {CMD_CONFIG_DATA, CMD_START_COMP, CMD_GET_STATUS, CMD_GET_STATUS + 1}
(* 3072 = 0x0C00 stands for the sizes over the cap of line 227: its image  *)
(* with the bytes reversed, 0x000C0000, is still a positive 32-bit int.    *)
SizeInputs == (0..MaxN) \cup {ServerCap + 72}
ThreadInputs == 0..MaxT
Vals == 1..MaxVal
(* The matrices a client sends: every cell 1, but for at most one cell,    *)
(* anywhere in the matrix, that holds a larger value.                       *)
Matrices(n) ==
  {[k \in 1..(n * n) |-> 1]} \cup
  {[k \in 1..(n * n) |-> IF k = p THEN v ELSE 1] : p \in 1..(n * n), v \in 2..MaxVal}

VARIABLES
  hpc,                \* position of the handler thread in handle_client
  matrixSize, numThreads, matrixData, resultData,      \* ClientState
  dataReceived, processingStarted, processingDone, errorOccurred,
  workerThread,       \* "none" | "joinable": state.workerThread
  response_code,      \* local of case CMD_GET_STATUS (0: not yet decided)
  wpc,                \* position of the worker thread in perform_computation
  size, threads_to_use, loop_i, startRow, workers,     \* locals of the worker
  cmdsLeft, cfgsLeft, \* what the client may still send
  lastCmd,            \* the last command tag the handler read (0: none)
  nresp,              \* response tags sent since that command tag was read
  out,                \* the last complete response sent: tag, size field, payload
  polls,              \* status response tags since the last START ack, while
  pollsOn,            \*   only CMD_GET_STATUS followed it (pollsOn)
  cfgSinceStart,      \* a CONFIG_DATA was read since the last worker spawn
  cfgFrom,            \* session state when the latest CONFIG_DATA tag was read
  startsSinceCfg,     \* workers spawned since the latest CONFIG_DATA was read
  dupStart,           \* the last command was a START answered as a duplicate
  lostRunning,        \* the connection ended while the worker was running
  cpc,                \* position of the client program in its main
  response, resultSize, result_received, poll_attempts, exitCode,  \* its locals
  acks,               \* RESP_ACK tags the client has accepted (CONFIG, START)
  gotResult,          \* it has received a whole RESP_RESULT of acceptable size
  pendings,           \* RESP_STATUS_PENDING tags it has received
  failure,            \* why it gave up ("none": it has not)
  sent                \* what it has sent, by the context string of each send

session == <<matrixSize, numThreads, matrixData, resultData, dataReceived,
             processingStarted, processingDone, errorOccurred, workerThread>>
wlocals == <<size, threads_to_use, loop_i, startRow, workers>>
(* The client program, src/client/main.cpp *)
client == <<cpc, response, resultSize, result_received, poll_attempts, exitCode,
            acks, gotResult, pendings, failure, sent>>
hist == <<cmdsLeft, cfgsLeft, lastCmd, nresp, out, polls, pollsOn,
          cfgSinceStart, cfgFrom, startsSinceCfg, dupStart, lostRunning, client>>
vars == <<hpc, session, response_code, wpc, wlocals, hist>>

(* The process was killed (std::terminate, an access violation): every    *)
(* thread stops where it is.                                               *)
crashed == hpc = "killed"

NoFrame == [tag |-> 0, size |-> 0, data |-> << >>]

Init ==
  /\ hpc = "recv_cmd"
  /\ matrixSize = 0 /\ numThreads = 1
  /\ matrixData = << >> /\ resultData = << >>
  /\ dataReceived = FALSE /\ processingStarted = FALSE
  /\ processingDone = FALSE /\ errorOccurred = FALSE
  /\ workerThread = "none"
  /\ response_code = 0
  /\ wpc = "none"
  /\ size = 0 /\ threads_to_use = 0 /\ loop_i = 0 /\ startRow = 0
  /\ workers = << >>
  /\ cmdsLeft = MaxCmds /\ cfgsLeft = MaxConfigs
  /\ lastCmd = 0 /\ nresp = 0 /\ out = NoFrame
  /\ polls = << >> /\ pollsOn = FALSE
  /\ cfgSinceStart = FALSE /\ cfgFrom = "none" /\ startsSinceCfg = 0
  /\ dupStart = FALSE /\ lostRunning = FALSE
  /\ cpc = "connect" /\ response = 0 /\ resultSize = 0
  /\ result_received = FALSE /\ poll_attempts = 0 /\ exitCode = 0
  /\ acks = 0 /\ gotResult = FALSE /\ pendings = 0 /\ failure = "none"
  /\ sent = << >>

----------------------------------------------------------------------------
(* Pure helpers *)

Max2(a, b) == IF a > b THEN a ELSE b
Min2(a, b) == IF a < b THEN a ELSE b

(* std::vector<float>::resize(count): truncate, or append zeros *)
Resize(data, count) ==
  [k \in 1..count |-> IF k <= Len(data) THEN data[k] ELSE 0]

(* htonl and ntohl on the little-endian host the server is built for: the *)
(* four bytes of a 32-bit value in reverse order.                          *)
Swap32(v) ==
  (v % 256) * 16777216 + ((v \div 256) % 256) * 65536
    + ((v \div 65536) % 256) * 256 + (v \div 16777216)

(* A 32-bit value in memory after its first k bytes (the low ones) were    *)
(* overwritten with those of raw.                                          *)
StoreBytes(old, raw, k) ==
  LET w == CASE k = 0 -> 1 [] k = 1 -> 256 [] k = 2 -> 65536 [] OTHER -> 16777216
  IN (old \div w) * w + (raw % w)

(* A buffer whose first k cells were overwritten from m (a receive that stopped) *)
Overwrite(data, m, k) ==
  [x \in 1..Len(data) |-> IF x <= k THEN m[x] ELSE data[x]]

(* rowStartIndex of line 140 lies at or past the end of the buffer         *)
(* (i * sz >= Len(matrix), in the 64 bits of size_t)                       *)
RowStartsOutside(matrix, sz, i) ==
  sz > 0 /\ i >= (Len(matrix) + sz - 1) \div sz

(* The inner loop of process_matrix_rows over columns j..sz-1 of row i; g is *)
(* what the reads past the end of the buffer yield: the cells of a row     *)
(* ascend, so from the first cell outside the buffer on all of them are.   *)
RECURSIVE RowMaxFrom(_, _, _, _, _, _)
RowMaxFrom(matrix, sz, i, j, maxVal, g) ==
  IF j >= sz THEN maxVal
  ELSE IF RowStartsOutside(matrix, sz, i)
  THEN (IF g > maxVal THEN g ELSE maxVal)
  ELSE LET idx == i * sz + j + 1 IN
       IF idx > Len(matrix)
       THEN (IF g > maxVal THEN g ELSE maxVal)
       ELSE RowMaxFrom(matrix, sz, i, j + 1,
                       IF matrix[idx] > maxVal THEN matrix[idx] ELSE maxVal, g)

RowMaxSkipFirst(matrix, sz, i, g) == RowMaxFrom(matrix, sz, i, 1, NegInf, g)

RowMax(matrix, sz, i, g) == RowMaxFrom(matrix, sz, i, 0, NegInf, g)

ProcessRowWritesBelow(matrix, sz, i, g) ==
  LET maxVal == RowMax(matrix, sz, i, g)
      idx == (i + 1) * sz + i + 1
  IN IF i < sz /\ idx <= Len(matrix)
     THEN [matrix EXCEPT ![idx] = maxVal]
     ELSE matrix

(* One iteration of the outer loop of process_matrix_rows: row i. A write  *)
(* past the end of the buffer does not land in the buffer.                 *)
ProcessRow(matrix, sz, i, g) ==
  LET maxVal == RowMax(matrix, sz, i, g)
      idx == i * sz + i + 1
  IN IF i < sz /\ ~RowStartsOutside(matrix, sz, i) /\ idx <= Len(matrix)
     THEN [matrix EXCEPT ![idx] = maxVal]
     ELSE matrix

(* Every cell of row i that the task touches lies inside the buffer *)
RowInBounds(matrix, sz, i) ==
  ~RowStartsOutside(matrix, sz, i) /\ i * sz + sz <= Len(matrix)

ValidSizeNoZero(n) == ~(n > ServerCap)

(* The check of line 227 *)
ValidSize(n) == ~(n = 0 \/ n > ServerCap)

(* Where the session is, as the handler and the worker have left it *)
WorkerBusy ==
  wpc \in {"copy", "read_size", "read_threads", "spawn", "join", "set_done", "catch"}
SessionState ==
  IF WorkerBusy THEN "running"
  ELSE IF processingDone \/ errorOccurred THEN "terminal"
  ELSE IF dataReceived THEN "configured"
  ELSE "idle"

----------------------------------------------------------------------------
(* The worker thread: perform_computation, and its row tasks *)

hlocals == <<hpc, response_code>>
config == <<matrixSize, numThreads, matrixData>>
flags == <<dataReceived, processingStarted, processingDone, errorOccurred>>

(* lines 153-157: the working copy. The assignment allocates when the      *)
(* lengths differ, and an allocation can throw; std::copy cannot.          *)
WorkerCopy ==
  /\ wpc = "copy"
  /\ \/ /\ resultData' = matrixData
        /\ wpc' = "read_size"
     \/ /\ Len(resultData) # Len(matrixData)
        /\ resultData' = resultData
        /\ wpc' = "catch"
  /\ UNCHANGED <<hlocals, config, flags, workerThread, wlocals, hist>>

(* line 159 *)
WorkerReadSize ==
  /\ wpc = "read_size"
  /\ size' = matrixSize
  /\ wpc' = "read_threads"
  /\ UNCHANGED <<hlocals, session, threads_to_use, loop_i, startRow, workers, hist>>

(* lines 160-164 *)
WorkerReadThreads ==
  /\ wpc = "read_threads"
  /\ threads_to_use' = Max2(1, numThreads)
  /\ loop_i' = 0
  /\ startRow' = 0
  /\ workers' = << >>
  /\ wpc' = "spawn"
  /\ UNCHANGED <<hlocals, session, size, hist>>

rowsPerThreadRoundedUp == (size + threads_to_use - 1) \div threads_to_use
rowsPerThread == size \div threads_to_use
extraRowsOfNext == (size + 1) % threads_to_use
extraRows == size % threads_to_use
rowsForThisThread == rowsPerThread + (IF loop_i < extraRows THEN 1 ELSE 0)

(* lines 166-173: one iteration of the fan-out loop. Creating a thread can *)
(* throw: with no task created yet the exception reaches the catch of      *)
(* line 180; with a task already in `workers` the unwinding destroys a     *)
(* joinable std::thread, which is std::terminate. Once startRow has        *)
(* reached size no later iteration creates a task: the loop runs through   *)
(* them in one step. The host gives one computation at most MaxT threads:  *)
(* past that, creating one throws.                                         *)
WorkerSpawn ==
  /\ wpc = "spawn"
  /\ loop_i < threads_to_use
  /\ \/ /\ rowsForThisThread > 0 /\ startRow < size
        /\ LET endRow == Min2(startRow + rowsForThisThread, size) IN
           \/ /\ Len(workers) < MaxT
              /\ workers' = Append(workers,
                      [startRow |-> startRow, endRow |-> endRow, row |-> startRow])
              /\ startRow' = endRow
              /\ loop_i' = loop_i + 1
              /\ UNCHANGED <<wpc, hpc>>
           \/ /\ workers = << >>
              /\ wpc' = "catch"
              /\ UNCHANGED <<workers, startRow, loop_i, hpc>>
           \/ /\ workers # << >>
              /\ wpc' = "killed" /\ hpc' = "killed"
              /\ UNCHANGED <<workers, startRow, loop_i>>
     \/ /\ ~(rowsForThisThread > 0 /\ startRow < size)
        /\ loop_i' = IF startRow < size THEN loop_i + 1 ELSE threads_to_use
        /\ UNCHANGED <<workers, startRow, wpc, hpc>>
  /\ UNCHANGED <<response_code, session, size, threads_to_use, hist>>

WorkerSpawnEnd ==
  /\ wpc = "spawn"
  /\ ~(loop_i < threads_to_use)
  /\ wpc' = "join"
  /\ UNCHANGED <<hlocals, session, wlocals, hist>>

(* The cells of the buffer that task k reads (line 142) and writes (line    *)
(* 144) over its whole range of rows, as positions 1.. of resultData       *)
TaskReads(k) ==
  {i * size + j + 1 : i \in workers[k].startRow..(workers[k].endRow - 1),
                      j \in 0..(size - 1)}

TaskWrites(k) ==
  {i * size + i + 1 : i \in {r \in workers[k].startRow..(workers[k].endRow - 1) : r < size}}

(* process_matrix_rows, one row of task k per step (lines 139-146) *)
TaskRow(k) ==
  /\ wpc \in {"spawn", "join"}
  /\ workers[k].row < workers[k].endRow
  /\ LET i == workers[k].row IN
     /\ RowInBounds(resultData, size, i)
     /\ resultData' = ProcessRow(resultData, size, i, 0)
     /\ workers' = [workers EXCEPT ![k].row = i + 1]
  /\ UNCHANGED <<hlocals, config, flags, workerThread, wpc, size, threads_to_use,
                 loop_i, startRow, hist>>

(* The same step when row i does not lie inside the buffer: the reads past *)
(* the end yield anything, the write past the end lands elsewhere, or the  *)
(* access kills the process. The rows after the last one that overlaps the *)
(* buffer neither read nor write it: the task runs through them in the     *)
(* same step.                                                               *)
TaskRowOutOfBounds(k) ==
  /\ wpc \in {"spawn", "join"}
  /\ workers[k].row < workers[k].endRow
  /\ LET i == workers[k].row IN
     /\ ~RowInBounds(resultData, size, i)
     /\ \/ /\ \E g \in {0} \cup Vals :
                resultData' = ProcessRow(resultData, size, i, g)
           /\ workers' = [workers EXCEPT ![k].row =
                            IF RowStartsOutside(resultData, size, i + 1)
                            THEN workers[k].endRow ELSE i + 1]
           /\ UNCHANGED <<wpc, hpc>>
        \/ /\ wpc' = "killed" /\ hpc' = "killed"
           /\ UNCHANGED <<resultData, workers>>
  /\ UNCHANGED <<response_code, config, flags, workerThread, size, threads_to_use,
                 loop_i, startRow, hist>>

WorkerJoinTasksSkipped ==
  /\ wpc = "join"
  /\ wpc' = "set_done"
  /\ UNCHANGED <<hlocals, session, wlocals, hist>>

(* line 174 *)
WorkerJoinTasks ==
  /\ wpc = "join"
  /\ \A k \in 1..Len(workers) : workers[k].row >= workers[k].endRow
  /\ wpc' = "set_done"
  /\ UNCHANGED <<hlocals, session, wlocals, hist>>

(* line 176 *)
WorkerSetDone ==
  /\ wpc = "set_done"
  /\ processingDone' = TRUE
  /\ wpc' = "set_error"
  /\ UNCHANGED <<hlocals, config, resultData, dataReceived, processingStarted,
                 errorOccurred, workerThread, wlocals, hist>>

(* line 177 *)
WorkerClearError ==
  /\ wpc = "set_error"
  /\ errorOccurred' = FALSE
  /\ wpc' = "clear_started"
  /\ UNCHANGED <<hlocals, config, resultData, dataReceived, processingStarted,
                 processingDone, workerThread, wlocals, hist>>

WorkerCatchSkipsError ==
  /\ wpc = "catch"
  /\ wpc' = "catch_done"
  /\ UNCHANGED <<hlocals, session, wlocals, hist>>

(* lines 182 and 186 *)
WorkerCatchSetError ==
  /\ wpc = "catch"
  /\ errorOccurred' = TRUE
  /\ wpc' = "catch_done"
  /\ UNCHANGED <<hlocals, config, resultData, dataReceived, processingStarted,
                 processingDone, workerThread, wlocals, hist>>

(* lines 183 and 187 *)
WorkerCatchClearDone ==
  /\ wpc = "catch_done"
  /\ processingDone' = FALSE
  /\ wpc' = "clear_started"
  /\ UNCHANGED <<hlocals, config, resultData, dataReceived, processingStarted,
                 errorOccurred, workerThread, wlocals, hist>>

(* line 189, and the return of the thread function *)
WorkerClearStarted ==
  /\ wpc = "clear_started"
  /\ processingStarted' = FALSE
  /\ wpc' = "exited"
  /\ size' = 0 /\ threads_to_use' = 0 /\ loop_i' = 0 /\ startRow' = 0
  /\ workers' = << >>
  /\ UNCHANGED <<hlocals, config, resultData, dataReceived, processingDone,
                 errorOccurred, workerThread, hist>>

----------------------------------------------------------------------------
(* The handler thread: handle_client *)

Frame(tag) == [tag |-> tag, size |-> 0, data |-> << >>]
ghost == <<cmdsLeft, cfgsLeft, lastCmd, cfgSinceStart, cfgFrom, startsSinceCfg,
           lostRunning, client>>
(* ghost, wire and dupStart together are hist *)
wire == <<nresp, out, polls, pollsOn>>

(* The connection is over: nothing more is read from it or sent on it, and *)
(* what it carried is forgotten.                                           *)
Forget ==
  /\ cmdsLeft' = 0 /\ cfgsLeft' = 0 /\ lastCmd' = 0
  /\ nresp' = 0 /\ out' = NoFrame /\ polls' = << >> /\ pollsOn' = FALSE
  /\ cfgSinceStart' = TRUE /\ cfgFrom' = "none" /\ startsSinceCfg' = 0
  /\ dupStart' = FALSE
  /\ lostRunning' = WorkerBusy
  /\ UNCHANGED client

(* A recv or a send failed, or the handler caught an exception: the loop   *)
(* ends (keep_connection = false; break, or the catch of line 298) and     *)
(* lines 305-308 close the socket. `state` is still alive.                 *)
ConnectionLost ==
  /\ hpc' = "destroy"
  /\ Forget

(* send_uint32 of a response tag that is not followed by a status payload, *)
(* when the send succeeds: the handler goes on at `to`.                    *)
SendTag(tag, to) ==
  /\ out' = Frame(tag)
  /\ nresp' = nresp + 1
  /\ hpc' = to

(* line 216: the next command tag, or the end of the stream *)
RecvCommand ==
  /\ hpc = "recv_cmd"
  /\ \/ /\ cmdsLeft > 0
        /\ \E c \in Commands :
             /\ c = CMD_CONFIG_DATA => cfgsLeft > 0
             /\ lastCmd' = c
             /\ hpc' = CASE c = CMD_CONFIG_DATA -> "cfg_size"
                         [] c = CMD_START_COMP -> "start"
                         [] c = CMD_GET_STATUS -> "status_error"
                         [] OTHER -> "unknown"
             /\ cfgsLeft' = IF c = CMD_CONFIG_DATA THEN cfgsLeft - 1 ELSE cfgsLeft
             /\ cfgFrom' = IF c = CMD_CONFIG_DATA THEN SessionState ELSE cfgFrom
             /\ cfgSinceStart' = (cfgSinceStart \/ c = CMD_CONFIG_DATA)
             /\ startsSinceCfg' = IF c = CMD_CONFIG_DATA THEN 0 ELSE startsSinceCfg
             /\ pollsOn' = (pollsOn /\ c = CMD_GET_STATUS)
             /\ polls' = IF pollsOn /\ c = CMD_GET_STATUS THEN polls ELSE << >>
        /\ cmdsLeft' = cmdsLeft - 1
        /\ nresp' = 0
        /\ dupStart' = FALSE
        /\ UNCHANGED <<out, lostRunning, client>>
     \/ ConnectionLost
  /\ UNCHANGED <<session, response_code, wpc, wlocals>>

(* line 223, lines 73-77: recv writes the bytes of the wire into           *)
(* state.matrixSize itself; a receive that fails may have written some.    *)
ConfigRecvSize ==
  /\ hpc = "cfg_size"
  /\ \E n \in SizeInputs :
       \/ /\ matrixSize' = Swap32(n)
          /\ hpc' = "cfg_size_ntohl"
          /\ UNCHANGED hist
       \/ /\ \E k \in 0..3 : matrixSize' = StoreBytes(matrixSize, Swap32(n), k)
          /\ ConnectionLost
  /\ UNCHANGED <<numThreads, matrixData, resultData, flags, workerThread,
                 response_code, wpc, wlocals>>

(* line 75: value = ntohl(value), in place *)
ConfigSizeNtohl ==
  /\ hpc = "cfg_size_ntohl"
  /\ matrixSize' = Swap32(matrixSize)
  /\ hpc' = "cfg_threads"
  /\ UNCHANGED <<numThreads, matrixData, resultData, flags, workerThread,
                 response_code, wpc, wlocals, hist>>

(* line 224: the same into state.numThreads *)
ConfigRecvThreads ==
  /\ hpc = "cfg_threads"
  /\ \E t \in ThreadInputs :
       \/ /\ numThreads' = Swap32(t)
          /\ hpc' = "cfg_threads_ntohl"
          /\ UNCHANGED hist
       \/ /\ \E k \in 0..3 : numThreads' = StoreBytes(numThreads, Swap32(t), k)
          /\ ConnectionLost
  /\ UNCHANGED <<matrixSize, matrixData, resultData, flags, workerThread,
                 response_code, wpc, wlocals>>

(* line 75 for numThreads, then the size check of lines 227-231 *)
ConfigThreadsNtohl ==
  /\ hpc = "cfg_threads_ntohl"
  /\ numThreads' = Swap32(numThreads)
  /\ hpc' = IF ValidSize(matrixSize) THEN "cfg_resize" ELSE "cfg_invalid"
  /\ UNCHANGED <<matrixSize, matrixData, resultData, flags, workerThread,
                 response_code, wpc, wlocals, hist>>

(* lines 228-230: RESP_ERROR, the result of the send being ignored, and    *)
(* the loop ends.                                                          *)
ConfigInvalid ==
  /\ hpc = "cfg_invalid"
  /\ \/ /\ out' = Frame(RESP_ERROR)
        /\ nresp' = nresp + 1
     \/ UNCHANGED <<out, nresp>>
  /\ hpc' = "cleanup"
  /\ UNCHANGED <<session, response_code, wpc, wlocals, ghost, polls, pollsOn,
                 dupStart>>

(* lines 232-234 and 111-112: recv_floats resizes state.matrixData first;  *)
(* the allocation can throw.                                               *)
ConfigResize ==
  /\ hpc = "cfg_resize"
  /\ \/ /\ matrixData' = Resize(matrixData, matrixSize * matrixSize)
        /\ hpc' = "cfg_data"
        /\ UNCHANGED hist
     \/ /\ ConnectionLost
        /\ UNCHANGED matrixData
  /\ UNCHANGED <<matrixSize, numThreads, resultData, flags, workerThread,
                 response_code, wpc, wlocals>>

(* lines 116-131: the receive loop fills the buffer, or stops after k cells *)
ConfigRecvData ==
  /\ hpc = "cfg_data"
  /\ \E m \in Matrices(matrixSize) :
       \/ /\ matrixData' = m
          /\ hpc' = "cfg_reset"
          /\ UNCHANGED hist
       \/ /\ \E k \in 0..(Len(m) - 1) : matrixData' = Overwrite(matrixData, m, k)
          /\ ConnectionLost
  /\ UNCHANGED <<matrixSize, numThreads, resultData, flags, workerThread,
                 response_code, wpc, wlocals>>

ConfigResetFlagsKeepDone ==
  /\ hpc = "cfg_reset"
  /\ dataReceived' = TRUE
  /\ processingStarted' = FALSE
  /\ errorOccurred' = FALSE
  /\ hpc' = "cfg_join"
  /\ UNCHANGED <<config, resultData, processingDone, workerThread, response_code,
                 wpc, wlocals, hist>>

(* lines 238-239 *)
ConfigResetFlags ==
  /\ hpc = "cfg_reset"
  /\ dataReceived' = TRUE
  /\ processingStarted' = FALSE
  /\ processingDone' = FALSE
  /\ errorOccurred' = FALSE
  /\ hpc' = "cfg_join"
  /\ UNCHANGED <<config, resultData, workerThread, response_code, wpc, wlocals,
                 hist>>

(* if (workerThread.joinable()) workerThread.join(): returns once the      *)
(* thread function has returned.                                           *)
Join ==
  \/ /\ workerThread = "joinable"
     /\ wpc = "exited"
     /\ workerThread' = "none"
     /\ wpc' = "none"
  \/ /\ workerThread = "none"
     /\ UNCHANGED <<workerThread, wpc>>

(* line 240 *)
ConfigJoin ==
  /\ hpc = "cfg_join"
  /\ Join
  /\ hpc' = "cfg_ack"
  /\ UNCHANGED <<config, resultData, flags, response_code, wlocals, hist>>

ConfigAckSilent ==
  /\ hpc = "cfg_ack"
  /\ hpc' = "recv_cmd"
  /\ UNCHANGED <<session, response_code, wpc, wlocals, hist>>

(* line 242 *)
ConfigAck ==
  /\ hpc = "cfg_ack"
  /\ \/ /\ SendTag(RESP_ACK, "recv_cmd")
        /\ UNCHANGED <<ghost, polls, pollsOn, dupStart>>
     \/ ConnectionLost
  /\ UNCHANGED <<session, response_code, wpc, wlocals>>

(* lines 246-250: START_COMP before any CONFIG_DATA *)
StartNoData ==
  /\ hpc = "start"
  /\ ~dataReceived
  /\ \/ /\ SendTag(RESP_ERROR, "recv_cmd")
        /\ UNCHANGED <<ghost, polls, pollsOn, dupStart>>
     \/ ConnectionLost
  /\ UNCHANGED <<session, response_code, wpc, wlocals>>

StartDuplicateResetsFlags ==
  /\ hpc = "start"
  /\ dataReceived
  /\ processingStarted
  /\ \/ /\ SendTag(RESP_ACK, "recv_cmd")
        /\ pollsOn' = TRUE
        /\ polls' = << >>
        /\ dupStart' = TRUE
        /\ UNCHANGED ghost
     \/ ConnectionLost
  /\ processingDone' = FALSE
  /\ errorOccurred' = FALSE
  /\ UNCHANGED <<config, resultData, dataReceived, processingStarted, workerThread,
                 response_code, wpc, wlocals>>

(* lines 251-256: START_COMP while the started flag reads true *)
StartDuplicate ==
  /\ hpc = "start"
  /\ dataReceived
  /\ processingStarted
  /\ \/ /\ SendTag(RESP_ACK, "recv_cmd")
        /\ pollsOn' = TRUE
        /\ polls' = << >>
        /\ dupStart' = TRUE
        /\ UNCHANGED ghost
     \/ ConnectionLost
  /\ UNCHANGED <<session, response_code, wpc, wlocals>>

(* line 251, the started flag reads false *)
StartCheck ==
  /\ hpc = "start"
  /\ dataReceived
  /\ ~processingStarted
  /\ hpc' = "start_join"
  /\ UNCHANGED <<session, response_code, wpc, wlocals, hist>>

StartJoinSkipped ==
  /\ hpc = "start_join"
  /\ hpc' = "start_spawn"
  /\ UNCHANGED <<session, response_code, wpc, wlocals, hist>>

(* line 258 *)
StartJoin ==
  /\ hpc = "start_join"
  /\ Join
  /\ hpc' = "start_spawn"
  /\ UNCHANGED <<config, resultData, flags, response_code, wlocals, hist>>

StartSpawnKeepDone ==
  /\ hpc = "start_spawn"
  /\ processingStarted' = TRUE
  /\ errorOccurred' = FALSE
  /\ \/ /\ workerThread = "none"
        /\ workerThread' = "joinable"
        /\ wpc' = "copy"
        /\ hpc' = "start_ack"
        /\ cfgSinceStart' = FALSE
        /\ startsSinceCfg' = startsSinceCfg + 1
        /\ UNCHANGED <<cmdsLeft, cfgsLeft, lastCmd, cfgFrom, wire, dupStart,
                       lostRunning, client>>
     \/ /\ workerThread = "joinable"
        /\ hpc' = "killed" /\ wpc' = "killed"
        /\ UNCHANGED <<workerThread, hist>>
     \/ /\ ConnectionLost
        /\ UNCHANGED <<workerThread, wpc>>
  /\ UNCHANGED <<config, resultData, dataReceived, processingDone, response_code,
                 wlocals>>

(* lines 261-263: the flags, then the worker thread. Creating the thread   *)
(* can throw; assigning it to a workerThread that is still joinable is     *)
(* std::terminate.                                                         *)
StartSpawn ==
  /\ hpc = "start_spawn"
  /\ processingStarted' = TRUE
  /\ processingDone' = FALSE
  /\ errorOccurred' = FALSE
  /\ \/ /\ workerThread = "none"
        /\ workerThread' = "joinable"
        /\ wpc' = "copy"
        /\ hpc' = "start_ack"
        /\ cfgSinceStart' = FALSE
        /\ startsSinceCfg' = startsSinceCfg + 1
        /\ UNCHANGED <<cmdsLeft, cfgsLeft, lastCmd, cfgFrom, wire, dupStart,
                       lostRunning, client>>
     \/ /\ workerThread = "joinable"
        /\ hpc' = "killed" /\ wpc' = "killed"
        /\ UNCHANGED <<workerThread, hist>>
     \/ /\ ConnectionLost
        /\ UNCHANGED <<workerThread, wpc>>
  /\ UNCHANGED <<config, resultData, dataReceived, response_code, wlocals>>

(* line 265 *)
StartAck ==
  /\ hpc = "start_ack"
  /\ \/ /\ SendTag(RESP_ACK, "recv_cmd")
        /\ pollsOn' = TRUE
        /\ polls' = << >>
        /\ UNCHANGED <<ghost, dupStart>>
     \/ ConnectionLost
  /\ UNCHANGED <<session, response_code, wpc, wlocals>>

StatusReadErrorIgnored ==
  /\ hpc = "status_error"
  /\ response_code' = response_code /\ hpc' = "status_done"
  /\ UNCHANGED <<session, wpc, wlocals, hist>>

(* line 272 *)
StatusReadError ==
  /\ hpc = "status_error"
  /\ IF errorOccurred
     THEN response_code' = RESP_ERROR /\ hpc' = "status_send"
     ELSE response_code' = response_code /\ hpc' = "status_done"
  /\ UNCHANGED <<session, wpc, wlocals, hist>>

(* line 273 *)
StatusReadDone ==
  /\ hpc = "status_done"
  /\ IF processingDone
     THEN response_code' = RESP_RESULT /\ hpc' = "status_send"
     ELSE response_code' = response_code /\ hpc' = "status_started"
  /\ UNCHANGED <<session, wpc, wlocals, hist>>

(* lines 274-275 *)
StatusReadStarted ==
  /\ hpc = "status_started"
  /\ response_code' = IF processingStarted THEN RESP_STATUS_PENDING ELSE RESP_ERROR
  /\ hpc' = "status_send"
  /\ UNCHANGED <<session, wpc, wlocals, hist>>

(* lines 277-279: the response tag; send_data is response_code = RESP_RESULT. *)
(* A RESP_RESULT is complete only with its payload (StatusSendResult).      *)
StatusSend ==
  /\ hpc = "status_send"
  /\ \/ /\ out' = IF response_code = RESP_RESULT THEN out ELSE Frame(response_code)
        /\ nresp' = nresp + 1
        /\ hpc' = IF response_code = RESP_RESULT THEN "status_result" ELSE "recv_cmd"
        /\ polls' = IF pollsOn THEN Append(polls, response_code) ELSE polls
        /\ UNCHANGED <<ghost, pollsOn, dupStart>>
     \/ ConnectionLost
  /\ response_code' = 0
  /\ UNCHANGED <<session, wpc, wlocals>>

StatusSendResultOnce ==
  /\ hpc = "status_result"
  /\ \/ /\ out' = [tag |-> RESP_RESULT, size |-> matrixSize, data |-> resultData]
        /\ hpc' = "recv_cmd"
        /\ UNCHANGED <<ghost, nresp, polls, pollsOn, dupStart>>
     \/ ConnectionLost
  /\ processingDone' = FALSE
  /\ UNCHANGED <<config, resultData, dataReceived, processingStarted, errorOccurred,
                 workerThread, response_code, wpc, wlocals>>

(* lines 280-286: the size field and the floats of the result buffer *)
StatusSendResult ==
  /\ hpc = "status_result"
  /\ \/ /\ out' = [tag |-> RESP_RESULT, size |-> matrixSize, data |-> resultData]
        /\ hpc' = "recv_cmd"
        /\ UNCHANGED <<ghost, nresp, polls, pollsOn, dupStart>>
     \/ ConnectionLost
  /\ UNCHANGED <<session, response_code, wpc, wlocals>>

UnknownCommandClose ==
  /\ hpc = "unknown"
  /\ \/ /\ SendTag(RESP_ERROR, "cleanup")
        /\ UNCHANGED <<ghost, polls, pollsOn, dupStart>>
     \/ ConnectionLost
  /\ UNCHANGED <<session, response_code, wpc, wlocals>>

(* lines 290-294 *)
UnknownCommand ==
  /\ hpc = "unknown"
  /\ \/ /\ SendTag(RESP_ERROR, "recv_cmd")
        /\ UNCHANGED <<ghost, polls, pollsOn, dupStart>>
     \/ ConnectionLost
  /\ UNCHANGED <<session, response_code, wpc, wlocals>>

(* lines 305-308 after the loop was left with the connection still up *)
Cleanup ==
  /\ hpc = "cleanup"
  /\ hpc' = "destroy"
  /\ Forget
  /\ UNCHANGED <<session, response_code, wpc, wlocals>>

DestroyStateNoJoin ==
  /\ hpc = "destroy"
  /\ hpc' = "closed"
  /\ matrixSize' = 0 /\ numThreads' = 0
  /\ matrixData' = << >> /\ resultData' = << >>
  /\ dataReceived' = FALSE /\ processingStarted' = FALSE
  /\ processingDone' = FALSE /\ errorOccurred' = FALSE
  /\ UNCHANGED <<workerThread, wpc, response_code, wlocals, hist>>

(* ~ClientState, lines 38-44: join, then the members are released *)
DestroyState ==
  /\ hpc = "destroy"
  /\ Join
  /\ hpc' = "closed"
  /\ matrixSize' = 0 /\ numThreads' = 0
  /\ matrixData' = << >> /\ resultData' = << >>
  /\ dataReceived' = FALSE /\ processingStarted' = FALSE
  /\ processingDone' = FALSE /\ errorOccurred' = FALSE
  /\ UNCHANGED <<response_code, wlocals, hist>>

----------------------------------------------------------------------------
Next ==
  \/ RecvCommand
  \/ ConfigRecvSize \/ ConfigSizeNtohl \/ ConfigRecvThreads \/ ConfigThreadsNtohl
  \/ ConfigInvalid \/ ConfigResize
  \/ ConfigRecvData \/ ConfigResetFlags \/ ConfigJoin \/ ConfigAck
  \/ StartNoData \/ StartDuplicate \/ StartCheck \/ StartJoin \/ StartSpawn
  \/ StartAck
  \/ StatusReadError \/ StatusReadDone \/ StatusReadStarted \/ StatusSend
  \/ StatusSendResult
  \/ UnknownCommand \/ Cleanup \/ DestroyState
  \/ WorkerCopy \/ WorkerReadSize \/ WorkerReadThreads \/ WorkerSpawn
  \/ WorkerSpawnEnd \/ WorkerJoinTasks \/ WorkerSetDone \/ WorkerClearError
  \/ WorkerCatchSetError \/ WorkerCatchClearDone \/ WorkerClearStarted
  \/ \E k \in 1..Len(workers) : TaskRow(k) \/ TaskRowOutOfBounds(k)

Spec == Init /\ [][Next]_vars

----------------------------------------------------------------------------
(* The client program: main of src/client/main.cpp, against any server *)

max_poll_attempts == 120
(* line 213: the largest resultSize * resultSize the client accepts *)
ResultCap == 100000000

(* What a server can answer: the four response tags and another value *)
Tags == {RESP_ACK, RESP_STATUS_PENDING, RESP_RESULT, RESP_ERROR, RESP_ERROR + 1}
(* Size fields of a RESP_RESULT: none, small, the largest accepted, too large *)
ResultSizes == {0, 1, 10000, 10001}

serverSide == <<hpc, session, response_code, wpc, wlocals, cmdsLeft, cfgsLeft,
                lastCmd, nresp, out, polls, pollsOn, cfgSinceStart, cfgFrom,
                startsSinceCfg, dupStart, lostRunning>>

(* throw std::runtime_error, caught at line 238 *)
ClientThrow(why) ==
  /\ cpc' = "catch"
  /\ failure' = why

(* lines 146-171: WSAStartup, socket, connect *)
ClientConnect ==
  /\ cpc = "connect"
  /\ \/ cpc' = "send_config" /\ UNCHANGED failure
     \/ ClientThrow("codec")
  /\ UNCHANGED <<serverSide, sent, response, resultSize, result_received, poll_attempts,
                 exitCode, acks, gotResult, pendings>>

(* lines 178-181: what a CONFIG_DATA is made of, by the context string of  *)
(* each send                                                               *)
ConfigFrame == <<"send command config", "send matrix size", "send num threads",
                 "send matrix data">>

(* lines 178-181: four sends, each of which can fail *)
ClientSendConfig ==
  /\ cpc = "send_config"
  /\ \/ /\ cpc' = "recv_config_ack" /\ UNCHANGED failure
        /\ sent' = sent \o ConfigFrame
     \/ /\ ClientThrow("codec")
        /\ \E n \in 0..3 : sent' = sent \o SubSeq(ConfigFrame, 1, n)
  /\ UNCHANGED <<serverSide, response, resultSize, result_received, poll_attempts,
                 exitCode, acks, gotResult, pendings>>

(* lines 183-184 and 189-190: the response to CONFIG or to START *)
ClientRecvAck(to) ==
  /\ \/ \E r \in Tags :
          /\ response' = r
          /\ IF r = RESP_ACK
             THEN cpc' = to /\ acks' = acks + 1 /\ UNCHANGED failure
             ELSE ClientThrow("not_ack") /\ UNCHANGED acks
     \/ ClientThrow("codec") /\ UNCHANGED <<response, acks>>
  /\ UNCHANGED <<serverSide, sent, resultSize, result_received, poll_attempts, exitCode,
                 gotResult, pendings>>

ClientRecvConfigAck ==
  /\ cpc = "recv_config_ack"
  /\ ClientRecvAck("send_start")

(* line 188 *)
ClientSendStart ==
  /\ cpc = "send_start"
  /\ \/ /\ cpc' = "recv_start_ack" /\ UNCHANGED failure
        /\ sent' = Append(sent, "send command start")
     \/ ClientThrow("codec") /\ UNCHANGED sent
  /\ UNCHANGED <<serverSide, response, resultSize, result_received, poll_attempts,
                 exitCode, acks, gotResult, pendings>>

ClientRecvStartAck ==
  /\ cpc = "recv_start_ack"
  /\ ClientRecvAck("loop")

ClientLoopTestOneMore ==
  /\ cpc = "loop"
  /\ IF ~result_received /\ poll_attempts <= max_poll_attempts
     THEN poll_attempts' = poll_attempts + 1 /\ cpc' = "poll_send"
     ELSE poll_attempts' = poll_attempts /\ cpc' = "after_loop"
  /\ UNCHANGED <<serverSide, sent, response, resultSize, result_received, exitCode,
                 acks, gotResult, pendings, failure>>

(* lines 201-202: the loop condition, and poll_attempts++ *)
ClientLoopTest ==
  /\ cpc = "loop"
  /\ IF ~result_received /\ poll_attempts < max_poll_attempts
     THEN poll_attempts' = poll_attempts + 1 /\ cpc' = "poll_send"
     ELSE poll_attempts' = poll_attempts /\ cpc' = "after_loop"
  /\ UNCHANGED <<serverSide, sent, response, resultSize, result_received, exitCode,
                 acks, gotResult, pendings, failure>>

(* line 203 *)
ClientPollSend ==
  /\ cpc = "poll_send"
  /\ \/ /\ cpc' = "poll_recv" /\ UNCHANGED failure
        /\ sent' = Append(sent, "send command status")
     \/ ClientThrow("codec") /\ UNCHANGED sent
  /\ UNCHANGED <<serverSide, response, resultSize, result_received, poll_attempts,
                 exitCode, acks, gotResult, pendings>>

(* lines 204-206 and 224-230: the status response *)
ClientPollRecv ==
  /\ cpc = "poll_recv"
  /\ \/ \E r \in Tags :
          /\ response' = r
          /\ CASE r = RESP_RESULT ->
                    cpc' = "recv_size" /\ UNCHANGED <<pendings, failure>>
               [] r = RESP_STATUS_PENDING ->
                    cpc' = "loop" /\ pendings' = pendings + 1 /\ UNCHANGED failure
               [] r = RESP_ERROR ->
                    ClientThrow("error") /\ UNCHANGED pendings
               [] OTHER ->
                    ClientThrow("unexpected") /\ UNCHANGED pendings
     \/ ClientThrow("codec") /\ UNCHANGED <<response, pendings>>
  /\ UNCHANGED <<serverSide, sent, resultSize, result_received, poll_attempts, exitCode,
                 acks, gotResult>>

(* lines 208-221: the size field of the result *)
ClientRecvSize ==
  /\ cpc = "recv_size"
  /\ \/ \E n \in ResultSizes :
          /\ resultSize' = n
          /\ IF n > 0 /\ n * n <= ResultCap
             THEN cpc' = "recv_data" /\ UNCHANGED <<result_received, gotResult, failure>>
             ELSE IF n = 0
             THEN /\ cpc' = "loop" /\ result_received' = TRUE /\ gotResult' = TRUE
                  /\ UNCHANGED failure
             ELSE ClientThrow("implausible") /\ UNCHANGED <<result_received, gotResult>>
     \/ ClientThrow("codec") /\ UNCHANGED <<resultSize, result_received, gotResult>>
  /\ UNCHANGED <<serverSide, sent, response, poll_attempts, exitCode, acks, pendings>>

ClientRecvDataNotMarked ==
  /\ cpc = "recv_data"
  /\ \/ cpc' = "loop" /\ gotResult' = TRUE /\ UNCHANGED failure
     \/ ClientThrow("codec") /\ UNCHANGED gotResult
  /\ UNCHANGED <<serverSide, sent, response, resultSize, result_received, poll_attempts,
                 exitCode, acks, pendings>>

(* lines 214-215 and 222: the floats of the result *)
ClientRecvData ==
  /\ cpc = "recv_data"
  /\ \/ /\ cpc' = "loop" /\ result_received' = TRUE /\ gotResult' = TRUE
        /\ UNCHANGED failure
     \/ ClientThrow("codec") /\ UNCHANGED <<result_received, gotResult>>
  /\ UNCHANGED <<serverSide, sent, response, resultSize, poll_attempts, exitCode, acks,
                 pendings>>

(* lines 233-236 *)
ClientAfterLoop ==
  /\ cpc = "after_loop"
  /\ exitCode' = IF ~result_received THEN 1 ELSE exitCode
  /\ failure' = IF ~result_received THEN "timeout" ELSE failure
  /\ cpc' = "cleanup"
  /\ UNCHANGED <<serverSide, sent, response, resultSize, result_received, poll_attempts,
                 acks, gotResult, pendings>>

(* lines 238-244 *)
ClientCatch ==
  /\ cpc = "catch"
  /\ exitCode' = 1
  /\ cpc' = "cleanup"
  /\ UNCHANGED <<serverSide, sent, response, resultSize, result_received, poll_attempts,
                 acks, gotResult, pendings, failure>>

(* lines 246-255: close, and return exitCode *)
ClientExit ==
  /\ cpc = "cleanup"
  /\ cpc' = "exited"
  /\ UNCHANGED <<serverSide, sent, response, resultSize, result_received, poll_attempts,
                 exitCode, acks, gotResult, pendings, failure>>

ClientNext ==
  \/ ClientConnect \/ ClientSendConfig \/ ClientRecvConfigAck \/ ClientSendStart
  \/ ClientRecvStartAck \/ ClientLoopTest \/ ClientPollSend \/ ClientPollRecv
  \/ ClientRecvSize \/ ClientRecvData \/ ClientAfterLoop \/ ClientCatch
  \/ ClientExit

ClientSpec == Init /\ [][ClientNext]_vars

(* The threads of the server are scheduled fairly: the worker, each of its *)
(* row tasks, and the handler where it waits for the worker and not for    *)
(* the client.                                                             *)
WorkerStep ==
  \/ WorkerCopy \/ WorkerReadSize \/ WorkerReadThreads \/ WorkerSpawn
  \/ WorkerSpawnEnd \/ WorkerJoinTasks \/ WorkerSetDone \/ WorkerClearError
  \/ WorkerCatchSetError \/ WorkerCatchClearDone \/ WorkerClearStarted

TaskStep(k) ==
  /\ k <= Len(workers)
  /\ (TaskRow(k) \/ TaskRowOutOfBounds(k))

HandlerJoinStep == ConfigJoin \/ StartJoin \/ DestroyState

FairSpec ==
  /\ Init /\ [][Next]_vars
  /\ WF_vars(WorkerStep)
  /\ \A k \in 1..MaxT : WF_vars(TaskStep(k))
  /\ WF_vars(HandlerJoinStep)

----------------------------------------------------------------------------
(* One run of perform_computation on its own: the worker has made its      *)
(* working copy of a configured matrix of side 1..MaxRows, no command      *)
(* arrives during the run.                                                 *)

PartitionInit ==
  /\ hpc = "start_ack"
  /\ matrixSize \in 1..MaxRows /\ numThreads \in ThreadInputs
  /\ matrixData \in Matrices(matrixSize) /\ resultData = matrixData
  /\ dataReceived = TRUE /\ processingStarted = TRUE
  /\ processingDone = FALSE /\ errorOccurred = FALSE
  /\ workerThread = "joinable"
  /\ response_code = 0
  /\ wpc = "read_size"
  /\ size = 0 /\ threads_to_use = 0 /\ loop_i = 0 /\ startRow = 0
  /\ workers = << >>
  /\ cmdsLeft = 0 /\ cfgsLeft = 0
  /\ lastCmd = CMD_START_COMP /\ nresp = 0 /\ out = NoFrame
  /\ polls = << >> /\ pollsOn = FALSE
  /\ cfgSinceStart = FALSE /\ cfgFrom = "idle" /\ startsSinceCfg = 1
  /\ dupStart = FALSE /\ lostRunning = FALSE
  /\ cpc = "connect" /\ response = 0 /\ resultSize = 0
  /\ result_received = FALSE /\ poll_attempts = 0 /\ exitCode = 0
  /\ acks = 0 /\ gotResult = FALSE /\ pendings = 0 /\ failure = "none"
  /\ sent = << >>

PartitionNext ==
  \/ WorkerReadSize \/ WorkerReadThreads \/ WorkerSpawn \/ WorkerSpawnEnd
  \/ WorkerJoinTasks \/ WorkerSetDone \/ WorkerClearError
  \/ WorkerCatchSetError \/ WorkerCatchClearDone \/ WorkerClearStarted
  \/ \E k \in 1..Len(workers) : TaskRow(k)

PartitionSpec == PartitionInit /\ [][PartitionNext]_vars

----------------------------------------------------------------------------
(* What the claims speak of *)

(* A step of the handler thread (a step that kills the process is the      *)
(* worker's or a row task's)                                                *)
HandlerStep == hpc' # hpc /\ hpc' # "killed"

(* The largest element of a non-empty set of numbers *)
SetMax(S) == CHOOSE x \in S : \A y \in S : y <= x

(* The transformation of section 4.3: the diagonal cell of each row holds  *)
(* the maximum of the row of the input, every other cell the input's.      *)
Expected(m, n) ==
  [k \in 1..(n * n) |->
     LET i == (k - 1) \div n
         j == (k - 1) % n
     IN IF i = j THEN SetMax({m[i * n + c + 1] : c \in 0..(n - 1)}) ELSE m[k]]

FlagsConfigured ==
  dataReceived /\ ~processingStarted /\ ~processingDone /\ ~errorOccurred

(* PENDING zero or more times, then only RESULT or only ERROR *)
PendingThenTerminal(p) ==
  \E n \in 0..Len(p) :
    /\ \A k \in 1..n : p[k] = RESP_STATUS_PENDING
    /\ \/ \A k \in (n + 1)..Len(p) : p[k] = RESP_RESULT
       \/ \A k \in (n + 1)..Len(p) : p[k] = RESP_ERROR

(* C1: after an acknowledged START followed by CMD_GET_STATUS only, the    *)
(* status responses are RESP_STATUS_PENDING zero or more times and then    *)
(* RESP_RESULT or RESP_ERROR, and nothing else (no RESP_ERROR followed by  *)
(* RESP_RESULT, no RESP_RESULT followed by RESP_STATUS_PENDING).           *)
C1_StatusSequence == pollsOn => PendingThenTerminal(polls)

(* C2: when a run completes with done=1 and no CONFIG_DATA arrived since   *)
(* its START, the diagonal cell of every row of the result is the maximum  *)
(* of that row of the input and every other cell equals the input.         *)
C2_ResultIsRowMax ==
  (processingDone /\ ~cfgSinceStart) =>
     resultData = Expected(matrixData, matrixSize)

C2_Witness ==
  /\ processingDone /\ ~cfgSinceStart
  /\ matrixSize = MaxN
  /\ resultData # matrixData
  /\ hpc = "recv_cmd"

(* C3: once a CMD_GET_STATUS was answered RESP_RESULT, a CMD_GET_STATUS    *)
(* that follows it directly is answered RESP_RESULT with the same size and *)
(* the same payload, and the session stays in Done.                        *)
C3_ResultIdempotent ==
  [][ /\ (hpc = "status_send" /\ out.tag = RESP_RESULT)
           => response_code = RESP_RESULT
      /\ (hpc = "status_result" /\ out.tag = RESP_RESULT /\ hpc' = "recv_cmd")
           => out' = out
      /\ (hpc = "recv_cmd" /\ out.tag = RESP_RESULT)
           => (dataReceived /\ processingDone /\ ~errorOccurred) ]_vars

C3_Witness ==
  /\ hpc = "recv_cmd"
  /\ out.tag = RESP_RESULT
  /\ Len(polls) >= 2
  /\ polls[Len(polls) - 1] = RESP_RESULT
  /\ polls[Len(polls)] = RESP_RESULT

(* C4: when the handler is about to read a command tag, it has sent        *)
(* exactly one response tag for the command it read before, RESP_ACK if    *)
(* that was a CONFIG_DATA; it never sends a second tag for one command.    *)
C4_OneResponsePerCommand ==
  /\ nresp <= 1
  /\ (hpc = "recv_cmd" /\ lastCmd # 0) =>
        /\ nresp = 1
        /\ out.tag \in {RESP_ACK, RESP_STATUS_PENDING, RESP_RESULT, RESP_ERROR}
        /\ lastCmd = CMD_CONFIG_DATA => out.tag = RESP_ACK

C4_Witness ==
  /\ hpc = "recv_cmd"
  /\ lastCmd = CMD_CONFIG_DATA
  /\ out.tag = RESP_ACK
  /\ cmdsLeft <= MaxCmds - 3

(* C5: a CONFIG_DATA that arrived while the session was Running leaves    *)
(* the session Configured (configured=1, running=done=failed=0), so that   *)
(* a CMD_GET_STATUS handled after its ack and before the next START is     *)
(* answered RESP_ERROR, never RESP_RESULT.                                 *)
C5_ReconfigureWhileRunning ==
  (hpc = "status_send" /\ cfgFrom = "running" /\ startsSinceCfg = 0)
     => response_code = RESP_ERROR

(* C6: after the ack of a CONFIG_DATA that arrived in a terminal state,    *)
(* configured=1 and running=done=failed=0; a CMD_GET_STATUS before the     *)
(* next START is answered RESP_ERROR; and a RESP_RESULT after the next     *)
(* START carries the transformation of the newly configured matrix.        *)
C6_ReconfigureAfterTerminal ==
  /\ (hpc = "recv_cmd" /\ lastCmd = CMD_CONFIG_DATA /\ cfgFrom = "terminal")
        => FlagsConfigured
  /\ (hpc = "status_send" /\ cfgFrom = "terminal" /\ startsSinceCfg = 0)
        => response_code = RESP_ERROR
  /\ (hpc = "recv_cmd" /\ cfgFrom = "terminal" /\ startsSinceCfg > 0
        /\ out.tag = RESP_RESULT)
        => (out.size = matrixSize /\ out.data = Expected(matrixData, matrixSize))

C6_Witness ==
  /\ hpc = "recv_cmd"
  /\ cfgFrom = "terminal"
  /\ startsSinceCfg = 1
  /\ out.tag = RESP_RESULT
  /\ out.data # matrixData

(* C7 as stated: in Done (configured=1, done=1, worker finished, no        *)
(* CONFIG_DATA since) a CMD_START does not start another computation.      *)
C7_StartRejectedInDone ==
  ~(hpc = "start_spawn" /\ processingDone /\ ~cfgSinceStart)

(* C7 as amended: in Done a CMD_START is not rejected: the handler joins   *)
(* the finished worker, sets running=1, clears done and failed, spawns a   *)
(* new worker, and the only tag it sends is RESP_ACK.                      *)
C7_StartRestartsInDone ==
  [][ /\ (hpc = "start" /\ dataReceived /\ processingDone /\ ~processingStarted
            /\ HandlerStep)
           => (hpc' = "start_join" /\ UNCHANGED <<session, wpc, out, nresp>>)
      /\ (hpc = "start_join" /\ HandlerStep)
           => (hpc' = "start_spawn" /\ workerThread' = "none"
               /\ UNCHANGED <<config, resultData, flags, out, nresp>>)
      /\ (hpc = "start_spawn" /\ HandlerStep)
           => \/ /\ hpc' = "start_ack"
                 /\ processingStarted' /\ ~processingDone' /\ ~errorOccurred'
                 /\ workerThread' = "joinable" /\ wpc' = "copy"
                 /\ UNCHANGED <<config, resultData, dataReceived, out, nresp>>
              \/ hpc' = "destroy"
      /\ (hpc = "start_ack" /\ HandlerStep)
           => \/ hpc' = "recv_cmd" /\ out' = Frame(RESP_ACK) /\ nresp' = 1
              \/ hpc' = "destroy" ]_vars

C7_Witness ==
  /\ hpc = "start_ack"
  /\ startsSinceCfg = 2
  /\ wpc = "copy"
  /\ resultData = Expected(matrixData, matrixSize)
  /\ resultData # matrixData

(* C8: a CMD_START read while running=1 is answered RESP_ACK and the       *)
(* handler changes nothing else: flags, N, T, both buffers, the worker     *)
(* handle and the worker itself are as they were.                          *)
C8_DuplicateStartChangesNothing ==
  [][ (hpc = "start" /\ dataReceived /\ processingStarted /\ HandlerStep)
        => /\ \/ hpc' = "recv_cmd" /\ out' = Frame(RESP_ACK) /\ nresp' = 1
              \/ hpc' = "destroy"
           /\ UNCHANGED <<session, wpc, wlocals>> ]_vars

C8_Witness ==
  /\ hpc = "recv_cmd"
  /\ dupStart
  /\ out.tag = RESP_ACK
  /\ wpc = "join"
  /\ startsSinceCfg = 1

(* C9: a CMD_START with configured=0, a CMD_GET_STATUS that reads          *)
(* failed=done=running=0 and a command with an unknown tag are answered    *)
(* RESP_ERROR, the handler goes on to read the next command, and the       *)
(* session state is as it was.                                             *)
C9_RejectedCommandChangesNothing ==
  [][ /\ ((hpc = "start" /\ ~dataReceived) \/ hpc = "unknown") /\ HandlerStep
           => /\ \/ hpc' = "recv_cmd" /\ out' = Frame(RESP_ERROR) /\ nresp' = 1
                 \/ hpc' = "destroy"
              /\ UNCHANGED <<session, wpc, wlocals>>
      /\ (hpc = "status_started" /\ ~processingStarted /\ HandlerStep)
           => /\ hpc' = "status_send" /\ response_code' = RESP_ERROR
              /\ UNCHANGED <<session, wpc, wlocals>>
      /\ (hpc = "status_send" /\ response_code = RESP_ERROR /\ HandlerStep)
           => /\ \/ hpc' = "recv_cmd" /\ out' = Frame(RESP_ERROR) /\ nresp' = 1
                 \/ hpc' = "destroy"
              /\ UNCHANGED <<session, wpc, wlocals>> ]_vars

C9_Witness ==
  /\ hpc = "recv_cmd"
  /\ lastCmd \notin {CMD_CONFIG_DATA, CMD_START_COMP, CMD_GET_STATUS, 0}
  /\ out.tag = RESP_ERROR
  /\ dataReceived /\ processingDone
  /\ resultData = Expected(matrixData, matrixSize)

(* C10: a CONFIG_DATA whose N is 0 or above the cap gets RESP_ERROR and no *)
(* RESP_ACK, none of its payload is read (the input buffer and the flags   *)
(* are untouched), and the handler reads no further command; the payload   *)
(* is read only when N is valid.                                           *)
C10_InvalidSizeIsFatal ==
  [][ /\ (hpc = "cfg_threads_ntohl" /\ ~(0 < matrixSize /\ matrixSize <= ServerCap)
            /\ HandlerStep)
           => hpc' = "cfg_invalid"
      /\ (hpc = "cfg_invalid" /\ HandlerStep)
           => /\ hpc' = "cleanup"
              /\ \/ out' = Frame(RESP_ERROR) /\ nresp' = 1
                 \/ out' = out /\ nresp' = 0
              /\ UNCHANGED <<matrixData, resultData, flags, workerThread>>
      /\ (hpc = "cleanup" /\ HandlerStep) => hpc' = "destroy"
      /\ (hpc \in {"cfg_resize", "cfg_data"})
           => (0 < matrixSize /\ matrixSize <= ServerCap) ]_vars

C10_Witness ==
  /\ hpc = "cleanup"
  /\ lastCmd = CMD_CONFIG_DATA
  /\ out.tag = RESP_ERROR
  /\ matrixSize > ServerCap
  /\ dataReceived

(* C11: a RESP_RESULT carries a size field N and exactly N*N floats, N the *)
(* matrix side of the most recently acknowledged CONFIG_DATA (which is     *)
(* state.matrixSize whenever the handler is about to read a command).      *)
C11_ResultFrameShape ==
  (hpc = "recv_cmd" /\ out.tag = RESP_RESULT)
     => (out.size = matrixSize /\ Len(out.data) = out.size * out.size)

(* The run of the last START failed: its worker has left through the catch *)
(* of lines 180-188, and no CONFIG_DATA or START was read since that START *)
RunFailed == wpc = "exited" /\ errorOccurred /\ pollsOn

(* C12: the worker's catch sets failed=1, leaves done=0 and clears         *)
(* running; a CMD_GET_STATUS read after the failure, before any CONFIG or  *)
(* START, changes nothing, is answered RESP_ERROR, and the handler goes on *)
(* reading commands.                                                       *)
C12_FailedRunAnswersError ==
  /\ [](RunFailed => (~processingDone /\ ~processingStarted))
  /\ [][ /\ (wpc = "catch" /\ wpc' # wpc /\ wpc' # "killed") => errorOccurred'
         /\ (wpc = "catch_done" /\ wpc' # wpc /\ wpc' # "killed")
              => (~processingDone' /\ errorOccurred' = errorOccurred)
         /\ (hpc = "status_error" /\ RunFailed /\ HandlerStep)
              => /\ hpc' = "status_send" /\ response_code' = RESP_ERROR
                 /\ UNCHANGED <<session, wpc>>
         /\ (hpc = "status_send" /\ RunFailed /\ response_code = RESP_ERROR
               /\ HandlerStep)
              => /\ \/ /\ hpc' = "recv_cmd" /\ out' = Frame(RESP_ERROR)
                       /\ polls' = Append(polls, RESP_ERROR)
                    \/ hpc' = "destroy"
                 /\ UNCHANGED <<session, wpc>> ]_vars

C12_Witness ==
  /\ hpc = "recv_cmd"
  /\ RunFailed
  /\ Len(polls) >= 2
  /\ polls[Len(polls) - 1] = RESP_ERROR
  /\ polls[Len(polls)] = RESP_ERROR

(* C13: when the connection has ended with the worker still running, the   *)
(* handler neither stops nor abandons it: the only handler steps that move *)
(* the worker are the join of a worker that has returned and the spawn of  *)
(* START; the destructor releases the session state only with the worker   *)
(* joined, and once the state is released no worker or row task is left to *)
(* touch it.                                                               *)
C13_WorkerJoinedBeforeRelease ==
  /\ [](hpc = "closed" => (wpc = "none" /\ workerThread = "none" /\ workers = << >>))
  /\ [][ /\ (hpc' # hpc /\ wpc' # wpc /\ hpc' # "killed")
              => \/ wpc = "exited" /\ wpc' = "none"
                 \/ wpc = "none" /\ wpc' = "copy" /\ hpc = "start_spawn"
         /\ (hpc = "destroy" /\ HandlerStep)
              => (hpc' = "closed" /\ wpc \in {"exited", "none"}) ]_vars

(* The connection ended during a run, the worker completed it, and the     *)
(* session state has been released.                                        *)
C13_Witness ==
  /\ hpc = "closed"
  /\ lostRunning
  /\ wpc = "none"

(* C14: the client returns 0 exactly when it accepted RESP_ACK for CONFIG  *)
(* and for START and then received a RESP_RESULT of acceptable size in its *)
(* poll loop; a response that is not RESP_ACK, a RESP_ERROR or another tag *)
(* while polling, a failed send or receive, a result size whose square is  *)
(* above 100000000 and 120 RESP_STATUS_PENDING in a row all return 1.      *)
C14_ClientExitCode ==
  /\ exitCode \in {0, 1}
  /\ cpc = "exited" =>
       /\ exitCode = 0 <=> (acks = 2 /\ gotResult)
       /\ failure # "none" => exitCode = 1
       /\ failure = "none" => (acks = 2 /\ gotResult)
       /\ pendings = max_poll_attempts => exitCode = 1
       /\ (response = RESP_RESULT /\ resultSize * resultSize > ResultCap)
            => exitCode = 1
       /\ (acks = 2 /\ response \notin {RESP_RESULT, RESP_STATUS_PENDING})
            => exitCode = 1
       /\ (acks < 2 /\ response # RESP_ACK) => exitCode = 1
  /\ pendings <= max_poll_attempts

(* The client has returned 0 after a result that came on its last poll *)
C14_Witness ==
  /\ cpc = "exited"
  /\ exitCode = 0
  /\ pendings = max_poll_attempts - 1
  /\ resultSize = 10000

(* C15: for a run that completes successfully (done=1 with no CONFIG_DATA  *)
(* or START read since the START was acknowledged), no CMD_GET_STATUS      *)
(* handled since that acknowledgement was answered RESP_ERROR.             *)
C15_NoSpuriousError ==
  (pollsOn /\ processingDone /\ ~errorOccurred)
     => \A k \in 1..Len(polls) : polls[k] \in {RESP_STATUS_PENDING, RESP_RESULT}

(* C16: the handler writes N, T and the input buffer only when no worker   *)
(* of the session is running (none was started, or the last one has        *)
(* returned).                                                              *)
C16_InputFrozenDuringRun ==
  [][ (hpc' # hpc /\ config' # config) => wpc \in {"none", "exited"} ]_vars

(* C17: a session never has more than one worker that was spawned and not  *)
(* yet joined: the worker handle is joinable exactly while there is one,   *)
(* START spawns only with the previous worker joined, and the session is   *)
(* destroyed only with the worker joined.                                  *)
C17_OneOutstandingWorker ==
  /\ workerThread = "joinable" <=> wpc # "none"
  /\ hpc = "start_spawn" => (workerThread = "none" /\ wpc = "none")
  /\ hpc = "closed" => (workerThread = "none" /\ wpc = "none")

(* A second worker has just been spawned, the first one joined before *)
C17_Witness ==
  /\ hpc = "start_ack"
  /\ startsSinceCfg = 2
  /\ workerThread = "joinable"
  /\ wpc = "copy"

(* C18: no state has running=1 together with done=1 or failed=1, and none  *)
(* has done=1 together with failed=1 (the terminal flag is set and running *)
(* cleared in one step).                                                   *)
C18_FlagsExclusive ==
  /\ ~(processingStarted /\ (processingDone \/ errorOccurred))
  /\ ~(processingDone /\ errorOccurred)

(* C19: whenever the handler is about to read a command and done=1, the    *)
(* result buffer is as long as the input buffer.                           *)
C19_ResultLengthMatchesInput ==
  (hpc = "recv_cmd" /\ processingDone) => Len(resultData) = Len(matrixData)

(* Nothing of the worker is writing the result buffer: it is past its copy *)
(* and its fan-out, and every row task has run to its end.                 *)
NoTaskWriting ==
  /\ wpc \notin {"copy", "read_size", "read_threads", "spawn", "join"}
  /\ \A k \in 1..Len(workers) : workers[k].row >= workers[k].endRow

(* C20: while the handler sends a RESP_RESULT (from reading done=1 to the  *)
(* payload) no worker and no row task is writing the result buffer; done=1 *)
(* holds only with every row task finished, and a worker is spawned only   *)
(* with done cleared.                                                      *)
C20_ResultReadAfterTasksJoined ==
  /\ [](((hpc = "status_send" /\ response_code = RESP_RESULT) \/ hpc = "status_result")
          => NoTaskWriting)
  /\ [](processingDone => NoTaskWriting)
  /\ [][ (wpc' = "copy" /\ wpc # "copy") => ~processingDone' ]_vars

(* The handler is sending the payload while the worker, its row tasks      *)
(* joined, has not yet returned.                                           *)
C20_Witness ==
  /\ hpc = "status_result"
  /\ wpc = "clear_started"
  /\ Len(workers) = MaxT
  /\ resultData # matrixData

(* The fan-out loop of the worker is over *)
FanOutDone == wpc \in {"join", "set_done"}

(* C21: for N >= 1 the worker has spawned exactly min(T', N) row tasks     *)
(* when its fan-out loop is over, T' = max(1, T): no task without rows.    *)
C21_TaskCount ==
  /\ FanOutDone =>
       /\ size = matrixSize /\ threads_to_use = Max2(1, numThreads)
       /\ Len(workers) = Min2(threads_to_use, size)
  /\ \A k \in 1..Len(workers) : workers[k].startRow < workers[k].endRow

(* More threads asked for than the matrix has rows *)
C21_Witness ==
  /\ wpc = "join"
  /\ numThreads = MaxT /\ matrixSize < MaxT
  /\ Len(workers) = matrixSize

(* C22: the ranges [startRow, endRow) of the tasks follow one another from *)
(* row 0, task k (from 1) has q+1 rows if k <= r and q rows otherwise,     *)
(* q = N div T' and r = N mod T'; when the fan-out loop is over they end   *)
(* at N, so that every row of [0, N) lies in the range of exactly one task *)
C22_RowPartition ==
  /\ \A k \in 1..Len(workers) :
       /\ workers[k].startRow = (IF k = 1 THEN 0 ELSE workers[k - 1].endRow)
       /\ workers[k].endRow - workers[k].startRow
            = (size \div threads_to_use) + (IF k <= size % threads_to_use THEN 1 ELSE 0)
  /\ FanOutDone =>
       /\ Len(workers) > 0 /\ workers[Len(workers)].endRow = size
       /\ \A i \in 0..(size - 1) :
            Cardinality({k \in 1..Len(workers) :
                           workers[k].startRow <= i /\ i < workers[k].endRow}) = 1

(* An uneven split: the first task has one row more than the last *)
C22_Witness ==
  /\ wpc = "join"
  /\ Len(workers) = MaxT
  /\ workers[1].endRow - workers[1].startRow
       = workers[MaxT].endRow - workers[MaxT].startRow + 1
  /\ workers[MaxT].endRow - workers[MaxT].startRow >= 1

(* Task k has just processed a row *)
TaskStepped(k) ==
  /\ Len(workers') = Len(workers)
  /\ workers'[k].row # workers[k].row

(* C23: no cell written by a row task is read or written by another task   *)
(* of the run; a step of task k changes only cells of TaskWrites(k), and   *)
(* what it writes is the maximum of the cells of its own row.              *)
C23_TasksRaceFree ==
  /\ [](\A k, l \in 1..Len(workers) :
          k # l => TaskWrites(k) \cap (TaskReads(l) \cup TaskWrites(l)) = {})
  /\ [][\A k \in 1..Len(workers) :
          TaskStepped(k) =>
            LET i == workers[k].row IN
            /\ \A idx \in 1..Len(resultData) :
                 resultData'[idx] # resultData[idx] => idx \in TaskWrites(k)
            /\ resultData'[i * size + i + 1]
                 = SetMax({resultData[i * size + j + 1] : j \in 0..(size - 1)})
            /\ {i * size + j + 1 : j \in 0..(size - 1)} \subseteq TaskReads(k)]_vars

(* Two tasks in the middle of their ranges, one of them having changed a cell *)
C23_Witness ==
  /\ Len(workers) = 2
  /\ \A k \in 1..2 : workers[k].startRow < workers[k].row
                     /\ workers[k].row < workers[k].endRow
  /\ resultData # matrixData

(* The handler's positions inside case CMD_GET_STATUS *)
StatusPcs == {"status_error", "status_done", "status_started", "status_send",
              "status_result"}

(* C24: the handling of CMD_GET_STATUS leaves the four flags, N, T, both   *)
(* buffers and the worker handle as they are, and its response is chosen   *)
(* by reading failed, then done, then running: RESP_ERROR, RESP_RESULT,    *)
(* RESP_STATUS_PENDING, and RESP_ERROR when none of them is read set.      *)
C24_StatusObservesOnly ==
  [][/\ ((hpc \in StatusPcs \/ hpc' = "status_error") /\ HandlerStep) =>
          UNCHANGED <<dataReceived, processingStarted, processingDone, errorOccurred,
                      matrixSize, numThreads, matrixData, resultData, workerThread>>
     /\ (hpc = "status_error" /\ HandlerStep) =>
          IF errorOccurred
          THEN hpc' = "status_send" /\ response_code' = RESP_ERROR
          ELSE hpc' = "status_done"
     /\ (hpc = "status_done" /\ HandlerStep) =>
          IF processingDone
          THEN hpc' = "status_send" /\ response_code' = RESP_RESULT
          ELSE hpc' = "status_started"
     /\ (hpc = "status_started" /\ HandlerStep) =>
          /\ hpc' = "status_send"
          /\ response_code' = IF processingStarted THEN RESP_STATUS_PENDING
                                                    ELSE RESP_ERROR
     /\ (hpc = "status_send" /\ hpc' = "recv_cmd") =>
          /\ response_code \in {RESP_ERROR, RESP_STATUS_PENDING}
          /\ out' = Frame(response_code)
     /\ (hpc = "status_send" /\ hpc' = "status_result") =>
          response_code = RESP_RESULT
     /\ (hpc = "status_result" /\ hpc' = "recv_cmd") =>
          out'.tag = RESP_RESULT
    ]_vars

(* The status is about to answer RESP_ERROR from the failed flag while the  *)
(* running flag of the failed run is still set                             *)
C24_Witness ==
  /\ hpc = "status_send"
  /\ response_code = RESP_ERROR
  /\ errorOccurred /\ processingStarted

(* The handler has acknowledged a CMD_START and waits for the next command *)
StartAcked ==
  /\ hpc = "recv_cmd"
  /\ lastCmd = CMD_START_COMP
  /\ out.tag = RESP_ACK

(* The thread function has returned with running=0 and done=1 or failed=1 *)
RunEnded ==
  /\ wpc \in {"exited", "none"}
  /\ ~processingStarted
  /\ processingDone \/ errorOccurred

(* C25: under fair scheduling every run started by an acknowledged START   *)
(* eventually ends with running=0 and done=1 or failed=1, every join of    *)
(* the handler (CONFIG, START, teardown) eventually returns, and a pending *)
(* status is eventually followed by the end of the run.                    *)
C25_RunsEndAndJoinsReturn ==
  /\ StartAcked ~> RunEnded
  /\ \A pc \in {"cfg_join", "start_join", "destroy"} : (hpc = pc) ~> (hpc # pc)
  /\ (hpc = "status_send" /\ response_code = RESP_STATUS_PENDING) ~> RunEnded

(* Everything a client sends when no response ends it early *)
FullSession ==
  ConfigFrame \o <<"send command start">>
              \o [i \in 1..max_poll_attempts |-> "send command status"]

(* CMD_GET_STATUS commands sent so far *)
PollsSent == IF Len(sent) > 5 THEN Len(sent) - 5 ELSE 0

(* C26: the client sends CONFIG_DATA (tag, N, T, floats), then CMD_START,  *)
(* then at most 120 CMD_GET_STATUS; START only after a RESP_ACK for        *)
(* CONFIG, a poll only after a RESP_ACK for START, each command only      *)
(* after the response to the previous one, and no poll after a status     *)
(* response other than RESP_STATUS_PENDING.                                *)
C26_ClientCommandOrder ==
  /\ [](/\ Len(sent) <= Len(FullSession)
        /\ sent = SubSeq(FullSession, 1, Len(sent))
        /\ Len(sent) >= 5 => acks >= 1
        /\ Len(sent) >= 6 => acks = 2
        /\ PollsSent <= pendings + 1)
  /\ [][sent' # sent =>
          CASE cpc = "send_config" -> sent = << >> /\ acks = 0
            [] cpc = "send_start"  -> /\ sent = ConfigFrame
                                      /\ acks = 1 /\ response = RESP_ACK
            [] cpc = "poll_send"   -> /\ acks = 2 /\ ~result_received
                                      /\ pendings = PollsSent
                                      /\ response = (IF PollsSent = 0 THEN RESP_ACK
                                                     ELSE RESP_STATUS_PENDING)
            [] OTHER -> FALSE]_vars

(* The 120th poll has been sent *)
C26_Witness ==
  /\ cpc = "poll_recv"
  /\ sent = FullSession

(* C27: every cell that a row task is about to read or write lies inside   *)
(* the result buffer: the row it is at, taken with the N the task was      *)
(* started with, ends within the length of resultData, whatever commands   *)
(* arrive during the run.                                                  *)
C27_TaskIndexInBounds ==
  wpc \in {"spawn", "join"} =>
    \A k \in 1..Len(workers) :
      workers[k].row < workers[k].endRow =>
        RowInBounds(resultData, size, workers[k].row)

====
